---- MODULE Spec2Model ----
(***************************************************************************)
(* Model of the monitor loop of cosmic_pinger (src/src/main.rs, run_tray). *)
(*                                                                         *)
(* A target string is a sequence of tokens: the token " " is one white     *)
(* space character, every other token is a run of non-blank characters.    *)
(* Probe labels (the third component of a result) are TLA+ strings.        *)
(***************************************************************************)
EXTENDS Integers, Sequences, FiniteSets, TLC

VARIABLES
    pc,             \* position of the monitor loop inside one iteration
    targets,        \* config.targets loaded for the current cycle
    raw_results,    \* raw_results built by the probing loop
    notifications,  \* notifications built inside the critical section
    next_event,     \* index of the next event the dispatch loop hands out
    results,        \* PingerState.results
    last_update,    \* PingerState.last_update (ordinal of the publishing cycle)
    update_counter, \* PingerState.update_counter
    all_up,         \* PingerState.all_up
    first_run,      \* PingerState.first_run
    fail_streaks,   \* PingerState.fail_streaks
    current_handle, \* current_handle: the running tray service, if any
    config_file,    \* what load_config found on disk in this cycle
    dispatch_log,   \* the calls of send_status_notification of this cycle
    mutex,          \* who holds the Mutex of PingerState: free, monitor or tray
    staged,         \* what the critical section has computed and not yet written
    tray_pc,        \* position of the tray thread inside a callback
    tray_cb,        \* the callback the tray thread runs
    tray_seen,      \* what the callback saw through its guard, read by read
    committed,      \* history: PingerState when the Mutex was last released
    prev_hosts,     \* history: normalized targets of the previous cycle's list
    prev_failed,    \* history: hosts with a failed probe in the previous cycle
    probe,          \* one run of check_target: position, requests made, outcome
    tracked,        \* history: the host whose events are recorded, if any
    event_trace,    \* history: is_up of every event dispatched for that host
    http_client,    \* http_client: whether Client::builder().build() gave a client
    target_index    \* position of the probing loop in targets

vars == <<pc, targets, raw_results, notifications, next_event, results,
          last_update, update_counter, all_up, first_run, fail_streaks,
          current_handle, config_file, dispatch_log, mutex, staged, tray_pc,
          tray_cb, tray_seen, committed, prev_hosts, prev_failed, probe, tracked,
          event_trace, http_client, target_index>>

(***************************************************************************)
(* Program constants                                                       *)
(***************************************************************************)
FAIL_STREAK_THRESHOLD == 2
PING_ATTEMPTS == 3
PING_RETRY_DELAY_MS == 500
METHOD_NOT_ALLOWED == 405
U8_MAX == 255

NoTargetsLabel == <<"Nenhum", " ", "site", " ", "configurado">>
NoValidLabel == <<"Nenhum", " ", "site", " ", "válido">>

(***************************************************************************)
(* Bounds of the model                                                     *)
(***************************************************************************)
MaxTargets == 2
MaxCycles == 2
MaxLongCycles == 258
MaxTrayCycles == 2
MaxOnceCycles == 5

\* Strings the configuration file may list.
TargetPool == { <<"a">>, <<" ", "a">>, <<"b">>, <<" ">> }
\* The same, and a target whose name is the text of the placeholder row.
TargetPoolWithLabel == TargetPool \cup { NoTargetsLabel }

RECURSIVE SeqsUpTo(_, _)
SeqsUpTo(S, n) ==
    IF n = 0 THEN { <<>> }
    ELSE LET shorter == SeqsUpTo(S, n - 1)
         IN shorter \cup { Append(s, x) : s \in { t \in shorter : Len(t) = n - 1 }, x \in S }

Configs == SeqsUpTo(TargetPool, MaxTargets)
ConfigsWithLabel == SeqsUpTo(TargetPoolWithLabel, MaxTargets)
SingleConfig == { << <<"a">> >> }

(***************************************************************************)
(* Pure helpers                                                            *)
(***************************************************************************)
None == [some |-> FALSE]
Some(v) == [some |-> TRUE, val |-> v]

\* char::is_whitespace, the property White_Space that str::trim strips:
\* U+0009..U+000D, U+0020, U+0085, U+00A0, U+1680 (and U+2000..U+200A,
\* U+2028, U+2029, U+202F, U+205F, U+3000, which no string of this module
\* can hold).  The members outside ASCII are told apart from other characters
\* only where the text of the module is decoded as Unicode; where it is not,
\* every character outside ASCII reads alike and none of them is white space.
AsciiWhiteSpace == {"\t", "\n", "", "\f", "\r", " "}
UnicodeWhiteSpace == {"", " ", " "}
DecodesUnicode == "é" # "¡"
WhiteSpace ==
    AsciiWhiteSpace \cup (IF DecodesUnicode THEN UnicodeWhiteSpace ELSE {})
IsSpace(c) == c \in WhiteSpace

RECURSIVE TrimStart(_)
TrimStart(s) ==
    IF s # <<>> /\ IsSpace(Head(s)) THEN TrimStart(Tail(s)) ELSE s

RECURSIVE TrimEnd(_)
TrimEnd(s) ==
    IF s # <<>> /\ IsSpace(s[Len(s)]) THEN TrimEnd(SubSeq(s, 1, Len(s) - 1)) ELSE s

Trim(s) == TrimEnd(TrimStart(s))

normalize_target(raw) ==
    LET trimmed == Trim(raw)
    IN IF trimmed = <<>> THEN None ELSE Some(trimmed)

Placeholder(label) == [host |-> label, success |-> TRUE, msg |-> "-"]

\* Line 170: the triple pushed for a probed target.
PushProbed(raw, cleaned, out) ==
    Append(raw, [host |-> cleaned, success |-> out.success, msg |-> out.msg])

\* Lines 164-165 and 173-175: the placeholder of an empty list and the one
\* of a list that left nothing to probe; and a loop without the second.
CloseRawResultsNoFallback(tgts, raw) ==
    IF tgts = <<>> THEN << Placeholder(NoTargetsLabel) >> ELSE raw
CloseRawResults(tgts, raw) ==
    IF tgts = <<>> THEN << Placeholder(NoTargetsLabel) >>
    ELSE IF raw = <<>> THEN << Placeholder(NoValidLabel) >> ELSE raw

\* u8::saturating_add(1), and the wrapping addition it is not.
WrappingAdd(n) == (n + 1) % (U8_MAX + 1)
SaturatingAdd(n) == IF n + 1 > U8_MAX THEN U8_MAX ELSE n + 1

EntryOrInsert(fail_map, host) ==
    IF host \in DOMAIN fail_map THEN fail_map
    ELSE [h \in DOMAIN fail_map \cup {host} |-> IF h = host THEN 0 ELSE fail_map[h]]

FlapLabel(msg, entry) ==
    msg \o " (falha " \o ToString(entry) \o "/" \o ToString(FAIL_STREAK_THRESHOLD) \o ")"

\* Lines 189-205: the new streak, the effective status and the label.
\* A debounce whose streak survives a successful probe.
DebounceKeepStreak(entry, success, msg) ==
    IF success THEN [entry |-> entry, up |-> TRUE, msg |-> msg]
    ELSE LET e == SaturatingAdd(entry)
         IN IF e >= FAIL_STREAK_THRESHOLD
            THEN [entry |-> e, up |-> FALSE, msg |-> msg]
            ELSE [entry |-> e, up |-> TRUE, msg |-> FlapLabel(msg, e)]
Debounce(entry, success, msg) ==
    IF success THEN [entry |-> 0, up |-> TRUE, msg |-> msg]
    ELSE LET e == SaturatingAdd(entry)
         IN IF e >= FAIL_STREAK_THRESHOLD
            THEN [entry |-> e, up |-> FALSE, msg |-> msg]
            ELSE [entry |-> e, up |-> TRUE, msg |-> FlapLabel(msg, e)]

\* Lines 214-217: effective status of the first prior entry of the host.
RECURSIVE FindPrevious(_, _)
FindPrevious(previous_results, host) ==
    IF previous_results = <<>> THEN None
    ELSE IF Head(previous_results).host = host THEN Some(Head(previous_results).up)
    ELSE FindPrevious(Tail(previous_results), host)

\* Lines 213-221: whether the entry (host, effective_success) raises an event.
ShouldNotifyFirstRun(is_first_run, previous_results, host, effective_success) ==
    LET previous == FindPrevious(previous_results, host)
    IN IF previous.some THEN previous.val # effective_success ELSE TRUE
ShouldNotifyAlways(is_first_run, previous_results, host, effective_success) ==
    ~is_first_run
ShouldNotify(is_first_run, previous_results, host, effective_success) ==
    /\ ~is_first_run
    /\ LET previous == FindPrevious(previous_results, host)
       IN IF previous.some THEN previous.val # effective_success ELSE TRUE

\* Lines 207-209: the aggregate flag after one more entry.
DeriveAllUpLast(derived_all_up, effective_success) == effective_success
DeriveAllUp(derived_all_up, effective_success) ==
    IF ~effective_success THEN FALSE ELSE derived_all_up

\* Lines 187-222: the loop over raw_results.
RECURSIVE ProcessLoop(_, _, _, _)
ProcessLoop(raw, acc, previous_results, is_first_run) ==
    IF raw = <<>> THEN acc
    ELSE LET host == Head(raw).host
             fm == EntryOrInsert(acc.fail_map, host)
             d == Debounce(fm[host], Head(raw).success, Head(raw).msg)
             acc2 == [fail_map |-> [fm EXCEPT ![host] = d.entry],
                      final_results |-> Append(acc.final_results,
                                          [host |-> host, up |-> d.up, msg |-> d.msg]),
                      derived_all_up |-> DeriveAllUp(acc.derived_all_up, d.up),
                      notifications |->
                          IF ShouldNotify(is_first_run, previous_results, host, d.up)
                          THEN Append(acc.notifications, [host |-> host, is_up |-> d.up])
                          ELSE acc.notifications]
         IN ProcessLoop(Tail(raw), acc2, previous_results, is_first_run)

\* Lines 224-225: drop the streaks of hosts that are not in final_results.
RetainValid(fail_map, final_results) ==
    LET valid_hosts == { final_results[i].host : i \in 1..Len(final_results) }
    IN [h \in (DOMAIN fail_map) \cap valid_hosts |-> fail_map[h]]

\* Lines 178-228: what the critical section computes.
RunCycle(raw, streaks, previous_results, is_first_run) ==
    LET acc == ProcessLoop(raw,
                   [fail_map |-> streaks, final_results |-> <<>>,
                    derived_all_up |-> TRUE, notifications |-> <<>>],
                   previous_results, is_first_run)
    IN [acc EXCEPT !.fail_map = RetainValid(acc.fail_map, acc.final_results)]

\* The normalized, non-blank entries of a target list.
ConfiguredHosts(tgts) ==
    { normalize_target(tgts[i]).val :
          i \in { j \in 1..Len(tgts) : normalize_target(tgts[j]).some } }

\* The hosts of a cycle with at least one failed probe.
FailedHosts(raw) == { raw[i].host : i \in { j \in 1..Len(raw) : ~raw[j].success } }

(***************************************************************************)
(* What one probe can see and return                                       *)
(***************************************************************************)
\* Targets handed to check_target: the scheme, if any, and the rest.
ProbeTargetPool == { <<"http://", "a">>, <<"https://", "a">>, <<"a">> }
\* Status codes a server may answer with.
StatusCodes == {199, 200, 204, 299, 300, 301, 399, 400, 404, 405, 500}
\* What client.head(url).send() and client.get(url).send() may return.
HttpResponses ==
    { [kind |-> "status", code |-> c] : c \in StatusCodes }
        \cup { [kind |-> "timeout", code |-> 0], [kind |-> "error", code |-> 0] }
\* What SysCommand::new("ping")...output() may return: the exit status and
\* stdout, character by character, or an error of the spawn.
ReplyLine == <<"6", "4", " ", "b", "y", "t", "e", "s", ":", " ">>
TimeTag == <<"t", "i", "m", "e", "=">>
MsTag == <<" ", "m", "s">>
PingOutputs ==
    { [kind |-> "exit", success |-> TRUE,
       stdout |-> ReplyLine \o TimeTag \o <<"1", "2", ".", "3">> \o MsTag],
      [kind |-> "exit", success |-> TRUE,
       stdout |-> ReplyLine \o TimeTag \o <<" ", "1", "2", ".", "3", "\t">> \o MsTag],
      [kind |-> "exit", success |-> TRUE,
       stdout |-> ReplyLine \o TimeTag \o <<"1", "2", ".", "3">>],
      [kind |-> "exit", success |-> TRUE, stdout |-> ReplyLine],
      [kind |-> "exit", success |-> FALSE, stdout |-> <<>>],
      [kind |-> "spawn_error", success |-> FALSE, stdout |-> <<>>] }

\* The two plainest answers: a reply with its latency, a failed exit.
PlainPingOutputs ==
    { [kind |-> "exit", success |-> TRUE,
       stdout |-> ReplyLine \o TimeTag \o <<"1", "2", ".", "3">> \o MsTag],
      [kind |-> "exit", success |-> FALSE, stdout |-> <<>>] }

starts_with(target, prefix) == Len(target) > 0 /\ target[1] = prefix
IsHttpTarget(target) == starts_with(target, "http://") \/ starts_with(target, "https://")

is_success(code) == code \in 200..299
is_redirection(code) == code \in 300..399
\* Lines 337-341, and a summary that takes a redirection for a failure.
summarize_success_only(code) ==
    [success |-> is_success(code), msg |-> "HTTP " \o ToString(code)]
summarize_http_status(code) ==
    [success |-> is_success(code) \/ is_redirection(code),
     msg |-> "HTTP " \o ToString(code)]

\* str::find: the index of the first occurrence of pat in s at or after
\* from, 0 when there is none.
RECURSIVE Find(_, _, _)
Find(s, pat, from) ==
    IF from + Len(pat) - 1 > Len(s) THEN 0
    ELSE IF SubSeq(s, from, from + Len(pat) - 1) = pat THEN from
    ELSE Find(s, pat, from + 1)
\* The string of a sequence of characters.
RECURSIVE Concat(_)
Concat(chars) == IF chars = <<>> THEN "" ELSE Head(chars) \o Concat(Tail(chars))
\* Lines 269-276: the text of a successful ping: what stands between the
\* first "time=" and the first " ms" after it, trimmed, or "OK".
PingMessage(stdout) ==
    LET pos == Find(stdout, TimeTag, 1)
        start == pos + Len(TimeTag)
        ms == IF pos = 0 THEN 0 ELSE Find(stdout, MsTag, start)
    IN IF ms = 0 THEN "OK"
       ELSE Concat(Trim(SubSeq(stdout, start, ms - 1))) \o " ms"

\* Line 283: the delay follows a failed attempt that is not the last one;
\* and a delay after every failed attempt.
ShouldDelayAlways(attempt) == attempt < PING_ATTEMPTS
ShouldDelay(attempt) == attempt + 1 < PING_ATTEMPTS

\* What check_target returns: the text of the first successful ping or the
\* last_message of the third failed one (lines 256-290); the summary of the
\* status of the HEAD or of the GET, or the label of their failure (lines
\* 304-335); the label of the missing client (line 297).
LastMessage(output) == IF output.kind = "exit" THEN "OFFLINE" ELSE "Erro"
PingReturns(outputs) ==
    { [success |-> TRUE, msg |-> PingMessage(o.stdout)] :
          o \in { x \in outputs : x.kind = "exit" /\ x.success } }
      \cup { [success |-> FALSE, msg |-> LastMessage(o)] :
                 o \in { x \in outputs : ~(x.kind = "exit" /\ x.success) } }
HttpReturns ==
    { summarize_http_status(c) : c \in StatusCodes }
        \cup { [success |-> FALSE, msg |-> "HTTP timeout"],
               [success |-> FALSE, msg |-> "HTTP erro"] }
CheckOutcomes(target, client, outputs) ==
    IF IsHttpTarget(target)
    THEN IF client THEN HttpReturns
         ELSE { [success |-> FALSE, msg |-> "HTTP indisponível"] }
    ELSE PingReturns(outputs)

(***************************************************************************)
(* Configuration file                                                      *)
(***************************************************************************)
\* What the loop finds when it loads the configuration: the configuration
\* directory cannot be determined, the file is missing or unreadable, its
\* text is not an AppConfig, or it stores a target list.
NoConfigDir == [kind |-> "no_dir"]
MissingFile == [kind |-> "missing"]
UnreadableFile == [kind |-> "unreadable"]
InvalidFile == [kind |-> "invalid"]
ValidFile(cfg) == [kind |-> "valid", targets |-> cfg]
NotLoaded == [kind |-> "not_loaded"]

\* AppConfig::default().
DefaultTargets == << <<"google.com">>, <<"1.1.1.1">> >>

\* get_config_path: the path of sites.json, or a panic (None).
get_config_path(file) ==
    IF file.kind = "no_dir" THEN None ELSE Some("sites.json")

\* fs::read_to_string: the text of the file, or an error (None).
read_to_string(file) ==
    IF file.kind \in {"invalid", "valid"} THEN Some(file) ELSE None

\* serde_json::from_str(..).unwrap_or(AppConfig::default()).
from_str_or_default(content) ==
    IF content.kind = "valid" THEN content.targets ELSE DefaultTargets

\* load_config, once the path is known.
load_config(file) ==
    LET content == read_to_string(file)
    IN IF content.some THEN from_str_or_default(content.val) ELSE DefaultTargets

(***************************************************************************)
(* State machine                                                           *)
(***************************************************************************)
EmptyMap == [h \in {} |-> 0]

shared == <<results, last_update, update_counter, all_up, first_run, fail_streaks>>
history == <<prev_hosts, prev_failed>>
observer == <<tracked, event_trace>>
loop_frame == <<http_client, target_index>>
bystanders == <<history, observer, loop_frame>>
\* The record of the events of the tracked host, after one more event.
Observe(who, trace, event) ==
    IF who.some /\ event.host = who.val THEN Append(trace, event.is_up) ELSE trace
locking == <<mutex, staged, tray_pc, tray_cb, tray_seen>>

\* PingerState as a guard of the Mutex shows it.
View ==
    [results |-> results, last_update |-> last_update,
     update_counter |-> update_counter, all_up |-> all_up,
     first_run |-> first_run, fail_streaks |-> fail_streaks]

NoStage == [step |-> 0]
\* No call of check_target is being followed.
NoProbe ==
    [pc |-> "idle", target |-> <<>>, client |-> FALSE, logging |-> FALSE,
     log |-> <<>>, attempt |-> 0, last_message |-> "", out |-> None]
\* check_target is entered; what it sends and receives is recorded in log
\* when logging is on.
StartProbe(target, client, logging) ==
    [pc |-> "start", target |-> target, client |-> client, logging |-> logging,
     log |-> <<>>, attempt |-> 0, last_message |-> "", out |-> None]
Logged(kind, answer) == [kind |-> kind, answer |-> answer]
Log(p, kind, answer) ==
    IF p.logging THEN Append(p.log, Logged(kind, answer)) ELSE p.log
Return(outcome) == [some |-> TRUE, val |-> outcome]

InitCycle ==
    /\ pc = "tray"
    /\ current_handle = None
    /\ config_file = NotLoaded
    /\ targets = <<>>
    /\ raw_results = <<>>
    /\ notifications = <<>>
    /\ next_event = 1
    /\ dispatch_log = <<>>
    /\ results = <<>>
    /\ last_update = None
    /\ update_counter = 0
    /\ all_up = TRUE
    /\ first_run = TRUE
    /\ fail_streaks = EmptyMap
    /\ mutex = "free"
    /\ staged = NoStage
    /\ tray_pc = "idle"
    /\ tray_cb = "none"
    /\ tray_seen = <<>>
    /\ committed = View
    /\ prev_hosts = {}
    /\ prev_failed = {}
    /\ event_trace = <<>>
    /\ target_index = 1
\* The monitor thread enters its loop with an HTTP client.
Init == InitCycle /\ probe = NoProbe /\ tracked = None /\ http_client = TRUE

\* Line 146: the running tray service is told to shut down.
ShutdownTray ==
    /\ pc = "tray"
    /\ current_handle.some
    /\ pc' = "tray_pause"
    /\ UNCHANGED <<current_handle, config_file, targets, raw_results, notifications,
                   next_event, dispatch_log, shared, history>>
    /\ UNCHANGED <<locking, committed, probe, observer, loop_frame>>

\* Line 147: thread::sleep of 100 ms.
TrayPause ==
    /\ pc = "tray_pause"
    /\ pc' = "tray_spawn"
    /\ UNCHANGED <<current_handle, config_file, targets, raw_results, notifications,
                   next_event, dispatch_log, shared, history>>
    /\ UNCHANGED <<locking, committed, probe, observer, loop_frame>>

\* Lines 150-155: a new service is created and spawned, its handle kept.
SpawnTray ==
    /\ \/ pc = "tray" /\ ~current_handle.some
       \/ pc = "tray_spawn"
    /\ current_handle' = Some(update_counter + 1)
    /\ pc' = "load"
    /\ UNCHANGED <<config_file, targets, raw_results, notifications, next_event,
                   dispatch_log, shared, history>>
    /\ UNCHANGED <<locking, committed, probe, observer, loop_frame>>

\* Lines 145-155: shut the running tray service down and spawn a new one.
RecreateTray == ShutdownTray \/ TrayPause \/ SpawnTray

\* Lines 157-159: load the configuration for this cycle; the expect() of
\* get_config_path ends the thread when the directory is unknown.
LoadFile(files, max_cycles) ==
    /\ pc = "load"
    /\ update_counter < max_cycles
    /\ \E file \in files :
           /\ config_file' = file
           /\ IF get_config_path(file).some
              THEN /\ targets' = load_config(file)
                   /\ pc' = "probe"
              ELSE /\ targets' = targets
                   /\ pc' = "panicked"
    /\ UNCHANGED <<current_handle, raw_results, notifications, next_event,
                   dispatch_log, shared, history>>
    /\ UNCHANGED <<locking, committed, probe, observer, loop_frame>>

\* The same, when the file stores one of the lists of configs.
LoadConfig(configs, max_cycles) ==
    LoadFile({ ValidFile(cfg) : cfg \in configs }, max_cycles)

\* Lines 167-169: the next entry of the list: a blank one is dropped, for
\* any other check_target is called.
BeginProbe ==
    /\ pc = "probe"
    /\ probe.pc = "idle"
    /\ target_index <= Len(targets)
    /\ LET cleaned == normalize_target(targets[target_index])
       IN IF cleaned.some
          THEN /\ probe' = StartProbe(cleaned.val, http_client, FALSE)
               /\ target_index' = target_index
          ELSE /\ probe' = probe
               /\ target_index' = target_index + 1
    /\ UNCHANGED <<pc, current_handle, config_file, targets, raw_results,
                   notifications, next_event, dispatch_log, shared, history>>
    /\ UNCHANGED <<locking, committed, observer, http_client>>

\* Line 170: check_target has returned and its result is pushed.
PushResult ==
    /\ pc = "probe"
    /\ probe.pc = "done"
    /\ raw_results' = PushProbed(raw_results, probe.target, probe.out.val)
    /\ target_index' = target_index + 1
    /\ probe' = NoProbe
    /\ UNCHANGED <<pc, current_handle, config_file, targets, notifications,
                   next_event, dispatch_log, shared, history>>
    /\ UNCHANGED <<locking, committed, observer, http_client>>

\* Lines 164-165, 173-176: the loop is over, the placeholder is pushed when
\* nothing was.
EndProbing ==
    /\ pc = "probe"
    /\ probe.pc = "idle"
    /\ target_index > Len(targets)
    /\ raw_results' = CloseRawResults(targets, raw_results)
    /\ target_index' = 1
    /\ pc' = "publish"
    /\ UNCHANGED <<current_handle, config_file, targets, notifications, next_event,
                   dispatch_log, shared, history>>
    /\ UNCHANGED <<locking, committed, probe, observer, http_client>>

\* Lines 178-241: the critical section, from the lock to the drop of the
\* guard, as the one step it is for every other thread.
Publish ==
    /\ pc = "publish"
    /\ mutex = "free"
    /\ LET out == RunCycle(raw_results, fail_streaks, results, first_run)
       IN /\ results' = out.final_results
          /\ fail_streaks' = out.fail_map
          /\ all_up' = out.derived_all_up
          /\ notifications' = out.notifications
    /\ update_counter' = update_counter + 1
    /\ last_update' = Some(update_counter + 1)
    /\ first_run' = FALSE
    /\ next_event' = 1
    /\ pc' = "notify"
    /\ UNCHANGED <<current_handle, config_file, targets, raw_results, dispatch_log,
                   history>>
    /\ committed' = View'
    /\ UNCHANGED <<locking, probe, observer, loop_frame>>

\* Lines 243-245 and 343-370: hand one event to send_status_notification;
\* show() succeeds, or fails and the error is printed.
NotifyAbortOnError ==
    /\ pc = "notify"
    /\ next_event <= Len(notifications)
    /\ \E shown \in BOOLEAN :
           /\ dispatch_log' = Append(dispatch_log,
                  [host |-> notifications[next_event].host,
                   is_up |-> notifications[next_event].is_up, shown |-> shown])
           /\ next_event' = IF shown THEN next_event + 1 ELSE Len(notifications) + 1
    /\ UNCHANGED <<pc, current_handle, config_file, targets, raw_results,
                   notifications, shared, history>>
    /\ UNCHANGED <<locking, committed, probe, tracked, loop_frame>>
    /\ event_trace' = Observe(tracked, event_trace, notifications[next_event])
Notify ==
    /\ pc = "notify"
    /\ next_event <= Len(notifications)
    /\ \E shown \in BOOLEAN :
           dispatch_log' = Append(dispatch_log,
               [host |-> notifications[next_event].host,
                is_up |-> notifications[next_event].is_up, shown |-> shown])
    /\ next_event' = next_event + 1
    /\ UNCHANGED <<pc, current_handle, config_file, targets, raw_results,
                   notifications, shared, history>>
    /\ UNCHANGED <<locking, committed, probe, tracked, loop_frame>>
    /\ event_trace' = Observe(tracked, event_trace, notifications[next_event])

\* Lines 243-249: every event is dispatched, the loop computes sleep_for; and
\* the variant that does not wait for the events.
EndDispatchNoWait ==
    /\ pc = "notify"
    /\ pc' = "sleep"
    /\ UNCHANGED <<current_handle, config_file, targets, raw_results, notifications,
                   next_event, dispatch_log, shared, history>>
    /\ UNCHANGED <<locking, committed, probe, observer, loop_frame>>
EndDispatch ==
    /\ pc = "notify"
    /\ next_event > Len(notifications)
    /\ pc' = "sleep"
    /\ UNCHANGED <<current_handle, config_file, targets, raw_results, notifications,
                   next_event, dispatch_log, shared, history>>
    /\ UNCHANGED <<locking, committed, probe, observer, loop_frame>>

\* Lines 250-253: sleep for what is left of the interval (possibly nothing);
\* the locals of the iteration go out of scope.
Sleep ==
    /\ pc = "sleep"
    /\ pc' = "tray"
    /\ config_file' = NotLoaded
    /\ targets' = <<>>
    /\ raw_results' = <<>>
    /\ notifications' = <<>>
    /\ next_event' = 1
    /\ dispatch_log' = <<>>
    /\ prev_hosts' = ConfiguredHosts(targets)
    /\ prev_failed' = FailedHosts(raw_results)
    /\ UNCHANGED <<current_handle, shared>>
    /\ UNCHANGED <<locking, committed, probe, observer, loop_frame>>

(***************************************************************************)
(* The critical section statement by statement, and the tray thread        *)
(***************************************************************************)
monitor_locals ==
    <<current_handle, config_file, targets, raw_results, notifications, next_event,
      dispatch_log, probe>>
tray_locals == <<tray_pc, tray_cb, tray_seen>>

\* Line 182: monitor_state.lock(), which waits while a callback holds the
\* Mutex.
MonitorLock ==
    /\ pc = "publish"
    /\ mutex = "free"
    /\ mutex' = "monitor"
    /\ pc' = "compute"
    /\ UNCHANGED <<monitor_locals, shared, bystanders, staged, tray_locals, committed>>

\* Lines 183-225: debounce, diff and pruning on clones of the shared state.
ComputeCycle ==
    /\ pc = "compute"
    /\ LET out == RunCycle(raw_results, fail_streaks, results, first_run)
       IN /\ staged' = [step |-> 1, final_results |-> out.final_results,
                        fail_map |-> out.fail_map,
                        derived_all_up |-> out.derived_all_up]
          /\ notifications' = out.notifications
    /\ next_event' = 1
    /\ pc' = "write"
    /\ UNCHANGED <<current_handle, config_file, targets, raw_results, dispatch_log,
                   shared, bystanders, mutex, tray_locals, committed, probe>>

\* Lines 227-234: the assignments to the fields of PingerState, one by one.
WriteField ==
    /\ pc = "write"
    /\ CASE staged.step = 1 ->
              /\ results' = staged.final_results
              /\ UNCHANGED <<fail_streaks, update_counter, last_update, all_up, first_run>>
         [] staged.step = 2 ->
              /\ fail_streaks' = staged.fail_map
              /\ UNCHANGED <<results, update_counter, last_update, all_up, first_run>>
         [] staged.step = 3 ->
              /\ update_counter' = update_counter + 1
              /\ UNCHANGED <<results, fail_streaks, last_update, all_up, first_run>>
         [] staged.step = 4 ->
              /\ last_update' = Some(update_counter)
              /\ UNCHANGED <<results, fail_streaks, update_counter, all_up, first_run>>
         [] staged.step = 5 ->
              /\ all_up' = staged.derived_all_up
              /\ UNCHANGED <<results, fail_streaks, update_counter, last_update, first_run>>
         [] staged.step = 6 ->
              /\ first_run' = FALSE
              /\ UNCHANGED <<results, fail_streaks, update_counter, last_update, all_up>>
    /\ staged' = [staged EXCEPT !.step = @ + 1]
    /\ pc' = IF staged.step = 6 THEN "unlock" ELSE "write"
    /\ UNCHANGED <<monitor_locals, bystanders, mutex, tray_locals, committed>>

\* Lines 236-241: the guard is dropped at the end of the block; and a guard
\* that lives until the end of the iteration.
MonitorUnlockLate ==
    /\ pc = "unlock"
    /\ staged' = NoStage
    /\ committed' = View
    /\ pc' = "notify"
    /\ UNCHANGED <<monitor_locals, shared, bystanders, mutex, tray_locals>>
MonitorUnlock ==
    /\ pc = "unlock"
    /\ mutex' = "free"
    /\ staged' = NoStage
    /\ committed' = View
    /\ pc' = "notify"
    /\ UNCHANGED <<monitor_locals, shared, bystanders, tray_locals>>

TrayCallbacks == {"title", "icon_pixmap", "tool_tip", "menu"}
ProcessAlive == pc \notin {"panicked", "exited"}

\* Lines 380, 396, 423, 440: a callback of the running tray service takes
\* the Mutex; and a callback that reads without it.
TrayLockNoWait(cb) ==
    /\ ProcessAlive
    /\ current_handle.some
    /\ tray_pc = "idle"
    /\ mutex' = "tray"
    /\ tray_pc' = "first_read"
    /\ tray_cb' = cb
    /\ UNCHANGED <<pc, monitor_locals, shared, bystanders, staged, tray_seen, committed>>
TrayLock(cb) ==
    /\ ProcessAlive
    /\ current_handle.some
    /\ tray_pc = "idle"
    /\ mutex = "free"
    /\ mutex' = "tray"
    /\ tray_pc' = "first_read"
    /\ tray_cb' = cb
    /\ UNCHANGED <<pc, monitor_locals, shared, bystanders, staged, tray_seen, committed>>

\* Lines 382-385, 403-405, 424-427, 444-466: the callback reads fields of
\* PingerState through its guard, first the one it branches on, then the
\* others.
TrayRead ==
    /\ ProcessAlive
    /\ tray_pc \in {"first_read", "second_read"}
    /\ tray_seen' = Append(tray_seen, View)
    /\ tray_pc' = IF tray_pc = "first_read" THEN "second_read" ELSE "unlock"
    /\ UNCHANGED <<pc, monitor_locals, shared, bystanders, mutex, staged, tray_cb,
                   committed>>

\* Lines 393, 420, 437, 493: the callback returns and its guard is dropped.
TrayUnlock ==
    /\ ProcessAlive
    /\ tray_pc = "unlock"
    /\ mutex' = "free"
    /\ tray_pc' = "idle"
    /\ tray_cb' = "none"
    /\ tray_seen' = <<>>
    /\ UNCHANGED <<pc, monitor_locals, shared, bystanders, staged, committed>>

\* Lines 486-490: the menu entry "Sair" ends the process.
Quit ==
    /\ ProcessAlive
    /\ current_handle.some
    /\ tray_pc = "idle"
    /\ pc' = "exited"
    /\ UNCHANGED <<monitor_locals, shared, bystanders, locking, committed>>

(***************************************************************************)
(* One probe: check_target, do_http_check, fetch_via_get, do_ping          *)
(***************************************************************************)
probe_frame ==
    <<pc, current_handle, config_file, targets, raw_results, notifications,
      next_event, dispatch_log, shared, bystanders, locking, committed>>

\* Lines 292-302: check_target picks the probe by the scheme of the target.
CheckTarget ==
    /\ ProcessAlive
    /\ probe.pc = "start"
    /\ probe' =
         IF IsHttpTarget(probe.target)
         THEN IF probe.client
              THEN [probe EXCEPT !.pc = "head"]
              ELSE [probe EXCEPT !.pc = "done",
                       !.out = Return([success |-> FALSE, msg |-> "HTTP indisponível"])]
         ELSE [probe EXCEPT !.pc = "ping", !.attempt = 0, !.last_message = "OFFLINE"]
    /\ UNCHANGED probe_frame

\* Lines 304-321: do_http_check.
SendHead ==
    /\ ProcessAlive
    /\ probe.pc = "head"
    /\ \E resp \in HttpResponses :
         LET logged == Log(probe, "HEAD", resp)
         IN probe' =
              IF resp.kind = "status"
              THEN IF resp.code = METHOD_NOT_ALLOWED
                   THEN [probe EXCEPT !.pc = "get", !.log = logged]
                   ELSE [probe EXCEPT !.pc = "done", !.log = logged,
                            !.out = Return(summarize_http_status(resp.code))]
              ELSE IF resp.kind = "timeout"
                   THEN [probe EXCEPT !.pc = "done", !.log = logged,
                            !.out = Return([success |-> FALSE, msg |-> "HTTP timeout"])]
                   ELSE [probe EXCEPT !.pc = "get", !.log = logged]
    /\ UNCHANGED probe_frame

\* Lines 323-335: fetch_via_get.
SendGet ==
    /\ ProcessAlive
    /\ probe.pc = "get"
    /\ \E resp \in HttpResponses :
         LET logged == Log(probe, "GET", resp)
             outcome ==
                 IF resp.kind = "status" THEN summarize_http_status(resp.code)
                 ELSE IF resp.kind = "timeout"
                      THEN [success |-> FALSE, msg |-> "HTTP timeout"]
                      ELSE [success |-> FALSE, msg |-> "HTTP erro"]
         IN probe' = [probe EXCEPT !.pc = "done", !.log = logged,
                         !.out = Return(outcome)]
    /\ UNCHANGED probe_frame

\* Lines 259-282: one iteration of the loop of do_ping up to its delay, ping
\* answering with one of outputs.
PingAttempt(outputs) ==
    /\ ProcessAlive
    /\ probe.pc = "ping"
    /\ probe.attempt < PING_ATTEMPTS
    /\ \E output \in outputs :
         LET logged == Log(probe, "PING", output)
             after == IF ShouldDelay(probe.attempt) THEN "delay" ELSE "next"
         IN probe' =
              IF output.kind = "exit"
              THEN IF output.success
                   THEN [probe EXCEPT !.pc = "done", !.log = logged,
                            !.out = Return([success |-> TRUE,
                                            msg |-> PingMessage(output.stdout)])]
                   ELSE [probe EXCEPT !.pc = after, !.log = logged,
                            !.last_message = "OFFLINE"]
              ELSE [probe EXCEPT !.pc = after, !.log = logged, !.last_message = "Erro"]
    /\ UNCHANGED probe_frame

\* Lines 283-285: thread::sleep(PING_RETRY_DELAY_MS), then the next attempt.
RetryDelay ==
    /\ ProcessAlive
    /\ probe.pc = "delay"
    /\ probe' = [probe EXCEPT !.pc = "next",
                    !.log = Log(probe, "SLEEP", PING_RETRY_DELAY_MS)]
    /\ UNCHANGED probe_frame

\* Line 259: the loop variable advances.
NextAttempt ==
    /\ ProcessAlive
    /\ probe.pc = "next"
    /\ probe' = [probe EXCEPT !.pc = "ping", !.attempt = probe.attempt + 1]
    /\ UNCHANGED probe_frame

\* Line 289: the loop is over without a success.
PingGiveUp ==
    /\ ProcessAlive
    /\ probe.pc = "ping"
    /\ probe.attempt >= PING_ATTEMPTS
    /\ probe' = [probe EXCEPT !.pc = "done",
                    !.out = Return([success |-> FALSE, msg |-> probe.last_message])]
    /\ UNCHANGED probe_frame

\* One call of check_target, for every target, with and without a client.
InitProbe ==
    /\ InitCycle
    /\ tracked = None
    /\ http_client = TRUE
    /\ probe \in { StartProbe(t, c, TRUE) : t \in ProbeTargetPool, c \in BOOLEAN }
\* do_ping with the answers of outputs; do_http_check and fetch_via_get.
PingSteps(outputs) ==
    PingAttempt(outputs) \/ RetryDelay \/ NextAttempt \/ PingGiveUp
HttpSteps == SendHead \/ SendGet
NextProbe == CheckTarget \/ HttpSteps \/ PingSteps(PingOutputs)
SpecProbe == InitProbe /\ [][NextProbe]_vars
\* What a finished probe returns is one of the outcomes the probing loop
\* of the cycle draws from.
ReturnsAreOutcomes ==
    probe.pc = "done" =>
        probe.out.val \in CheckOutcomes(probe.target, probe.client, PingOutputs)

LoadAny == LoadConfig(Configs, MaxCycles)
\* Lines 167-172: one iteration of the probing loop, from the entry of the
\* list to the push of what check_target returned.
ProbeTarget(outputs) ==
    BeginProbe \/ CheckTarget \/ HttpSteps \/ PingSteps(outputs) \/ PushResult
\* Lines 162-176: probe every target of the list.
ProbeTargets(outputs) == ProbeTarget(outputs) \/ EndProbing
\* The same for lists without URLs, which never reach do_http_check.
ProbeHosts(outputs) ==
    BeginProbe \/ CheckTarget \/ PingSteps(outputs) \/ PushResult \/ EndProbing
ProbePlain == ProbeHosts(PlainPingOutputs)
LoadSingle == LoadConfig(SingleConfig, MaxLongCycles)
LoadWithLabel == LoadConfig(ConfigsWithLabel, MaxCycles)

Next ==
    RecreateTray \/ LoadAny \/ ProbePlain \/ Publish \/ Notify \/ EndDispatch \/ Sleep
Spec == Init /\ [][Next]_vars

\* One target that stays in the configuration, over many cycles.
NextLong ==
    RecreateTray \/ LoadSingle \/ ProbePlain \/ Publish \/ Notify \/ EndDispatch \/ Sleep
SpecLong == Init /\ [][NextLong]_vars

\* The configuration may list a target named like the placeholder row.
NextWithLabel ==
    \/ RecreateTray \/ LoadWithLabel \/ ProbePlain \/ Publish \/ Notify
    \/ EndDispatch \/ Sleep
SpecWithLabel == Init /\ [][NextWithLabel]_vars

\* Every cycle's list holds the tracked host exactly once, and its events
\* are recorded.
TrackedHost == <<"a">>
OnceConfigs ==
    { << <<"a">> >>, << <<"a", "\r", "\n">> >>, << <<"a">>, <<"b">> >>,
      << <<"b">>, <<"b">>, <<" ", "a", " ">> >> }
LoadOnce == LoadConfig(OnceConfigs, MaxOnceCycles)
InitOnce ==
    InitCycle /\ probe = NoProbe /\ tracked = Some(TrackedHost) /\ http_client = TRUE
NextOnce ==
    RecreateTray \/ LoadOnce \/ ProbePlain \/ Publish \/ Notify \/ EndDispatch \/ Sleep
SpecOnce == InitOnce /\ [][NextOnce]_vars

\* The configuration directory is unknown, or the file on disk is missing,
\* unreadable, broken or stores a list.
DiskFiles ==
    {NoConfigDir, MissingFile, UnreadableFile, InvalidFile}
        \cup { ValidFile(cfg) : cfg \in Configs }
LoadFromDisk == LoadFile(DiskFiles, MaxCycles)
NextFiles ==
    \/ RecreateTray \/ LoadFromDisk \/ ProbePlain \/ Publish \/ Notify
    \/ EndDispatch \/ Sleep
SpecFiles == Init /\ [][NextFiles]_vars

\* The monitor loop with its critical section statement by statement, the
\* tray thread, and every answer of the configuration directory.
\* The HTTP client may be missing.
EnvFiles ==
    { NoConfigDir, MissingFile, ValidFile(<< <<"a">> >>),
      ValidFile(<< <<"https://", "b">> >>) }
InitEnv == InitCycle /\ probe = NoProbe /\ tracked = None /\ http_client \in BOOLEAN
LoadEnv == LoadFile(EnvFiles, MaxTrayCycles)
MonitorNext ==
    \/ RecreateTray \/ LoadEnv \/ ProbeTargets(PingOutputs) \/ MonitorLock
    \/ ComputeCycle \/ WriteField \/ MonitorUnlock \/ Notify \/ EndDispatch \/ Sleep
TrayNext == (\E cb \in TrayCallbacks : TrayLock(cb)) \/ TrayRead \/ TrayUnlock
NextTray == MonitorNext \/ TrayNext \/ Quit
SpecTray == InitEnv /\ [][NextTray]_vars

TypeOK ==
    /\ pc \in {"tray", "tray_pause", "tray_spawn", "load", "probe", "publish",
               "compute", "write", "unlock", "notify", "sleep", "panicked", "exited"}
    /\ http_client \in BOOLEAN
    /\ target_index \in 1..(Len(targets) + 1)
    /\ probe.pc \in {"idle", "start", "head", "get", "ping", "delay", "next", "done"}
    /\ probe.attempt \in 0..PING_ATTEMPTS
    /\ probe.pc # "idle" => pc \in {"tray", "probe", "exited"}
    /\ mutex \in {"free", "monitor", "tray"}
    /\ update_counter \in 0..(MaxLongCycles + 1)
    /\ \A h \in DOMAIN fail_streaks : fail_streaks[h] \in 0..U8_MAX

(***************************************************************************)
(* Vocabulary of the claims                                                *)
(***************************************************************************)
\* The step that leaves the critical section.
PublishStep == pc = "publish" /\ pc' = "notify"
\* The step that hands one event to send_status_notification.
NotifyStep == pc = "notify" /\ next_event' = next_event + 1
\* The snapshot of the running cycle is published, its locals are alive.
CyclePublished == pc = "notify"

HasEntry(rs, h) == \E j \in 1..Len(rs) : rs[j].host = h
HasEntryWith(rs, h, v) == \E j \in 1..Len(rs) : rs[j].host = h /\ rs[j].up = v
Emitted(ns, h, v) == \E k \in 1..Len(ns) : ns[k].host = h /\ ns[k].is_up = v
StreakOf(fm, h) == IF h \in DOMAIN fm THEN fm[h] ELSE 0

\* C1: a failed probe of a host with no failed probe in the previous cycle
\* leaves every published entry of that host reachable, raises no 'down'
\* event for it, and a cycle whose failures are all isolated keeps all_up.
C1_IsolatedFailureSuppressed ==
    CyclePublished =>
        /\ \A i \in 1..Len(raw_results) :
               (~raw_results[i].success /\ raw_results[i].host \notin prev_failed) =>
                   /\ ~HasEntryWith(results, raw_results[i].host, FALSE)
                   /\ ~Emitted(notifications, raw_results[i].host, FALSE)
        /\ (FailedHosts(raw_results) \cap prev_failed = {}) => all_up

\* C2: the cycle that runs while first_run is true builds no event, and no
\* event is handed to send_status_notification before the second cycle.
C2_FirstCycleSilence ==
    [][/\ (PublishStep /\ first_run) => notifications' = <<>>
       /\ NotifyStep => update_counter >= 2]_vars

\* The first cycle published an entry that is down and has no prior entry.
C2_Witness ==
    /\ CyclePublished
    /\ update_counter = 1
    /\ \E i \in 1..Len(results) : ~results[i].up

\* C3: the events of one cycle name every target at most once.
C3_OneEventPerTarget ==
    CyclePublished =>
        \A i, j \in 1..Len(notifications) :
            notifications[i].host = notifications[j].host => i = j

\* C4: a cycle whose target list is empty publishes exactly the placeholder
\* entry, reachable, with all_up true and no event.
C4_EmptyConfiguration ==
    (CyclePublished /\ targets = <<>>) =>
        /\ Len(results) = 1
        /\ results[1].host = NoTargetsLabel
        /\ results[1].up
        /\ all_up
        /\ notifications = <<>>

\* C5 as stated: every event is for a target whose prior entry exists and
\* differs from the new value, and is built after the first cycle.
C5_OnlyOnDifference ==
    [][PublishStep =>
         \A k \in 1..Len(notifications') :
             /\ ~first_run
             /\ HasEntryWith(results', notifications'[k].host, notifications'[k].is_up)
             /\ HasEntryWith(results, notifications'[k].host, ~notifications'[k].is_up)]_vars

\* C5 amended: every event is for a target that has no entry in the prior
\* snapshot or has a prior entry that differs from the new value, and is
\* built after the first cycle.
C5_OnlyOnDifferenceOrNew ==
    [][PublishStep =>
         \A k \in 1..Len(notifications') :
             /\ ~first_run
             /\ HasEntryWith(results', notifications'[k].host, notifications'[k].is_up)
             /\ \/ ~HasEntry(results, notifications'[k].host)
                \/ HasEntryWith(results, notifications'[k].host, ~notifications'[k].is_up)]_vars

\* A 'down' event was built for a target.
C5_Witness ==
    /\ CyclePublished
    /\ \E k \in 1..Len(notifications) : ~notifications[k].is_up

\* C6: after the first cycle an entry (h, v) of the new results raises the
\* event (h, v) exactly when the prior snapshot has no entry of h or one
\* that differs from v, and never when it has an entry of h equal to v.
C6_DiffRule ==
    [][(PublishStep /\ ~first_run) =>
         \A i \in 1..Len(results') :
             LET h == results'[i].host
                 v == results'[i].up
             IN /\ Emitted(notifications', h, v) <=>
                       (~HasEntry(results, h) \/ HasEntryWith(results, h, ~v))
                /\ HasEntryWith(results, h, v) => ~Emitted(notifications', h, v)]_vars

\* C7: every published entry is down exactly when the streak of its target
\* has reached the threshold.
C7_ThresholdBoundary ==
    \A i \in 1..Len(results) :
        results[i].up = (StreakOf(fail_streaks, results[i].host) < FAIL_STREAK_THRESHOLD)

\* C8: for the one configured target a failed probe moves the streak from n
\* to n + 1, or keeps it at 255, and never lowers it; a successful probe
\* leaves it at exactly 0.
C8_DebounceMonotonic ==
    [][(PublishStep /\ Len(raw_results) = 1) =>
         LET h == raw_results[1].host
             old == StreakOf(fail_streaks, h)
         IN /\ h \in DOMAIN fail_streaks'
            /\ raw_results[1].success => fail_streaks'[h] = 0
            /\ ~raw_results[1].success =>
                   /\ fail_streaks'[h] >= old
                   /\ fail_streaks'[h] = (IF old = U8_MAX THEN U8_MAX ELSE old + 1)]_vars

\* The streak was at 255 and one more failed probe was processed.
C8_Witness ==
    /\ CyclePublished
    /\ update_counter > U8_MAX + 1
    /\ Len(raw_results) = 1
    /\ ~raw_results[1].success
    /\ StreakOf(fail_streaks, raw_results[1].host) = U8_MAX

\* C9: after a cycle every key of fail_streaks is an entry of the target
\* list loaded for that cycle.
C9_StreakKeysConfigured ==
    CyclePublished =>
        \A h \in DOMAIN fail_streaks : \E i \in 1..Len(targets) : targets[i] = h

\* C10: a target of the previous cycle's list that is not in this cycle's
\* list has no streak entry and no event after this cycle.
C10_PrunedOnRemoval ==
    CyclePublished =>
        \A h \in prev_hosts \ ConfiguredHosts(targets) :
            /\ h \notin DOMAIN fail_streaks
            /\ \A k \in 1..Len(notifications) : notifications[k].host # h

\* C11: in every state all_up is true exactly when no entry of results is
\* down.
C11_AggregateCorrect ==
    all_up <=> (\A i \in 1..Len(results) : results[i].up)

\* A published snapshot with a reachable entry followed by a down entry.
C11_Witness ==
    /\ CyclePublished
    /\ ~all_up
    /\ \E i, j \in 1..Len(results) : i < j /\ results[i].up /\ ~results[j].up

\* The configuration of the running cycle is loaded.
CycleLoaded == pc \in {"probe", "publish", "notify", "sleep"}

\* C14: no load of the configuration ends the monitor loop; a missing,
\* unreadable or broken file makes the cycle run with the default list
\* ["google.com", "1.1.1.1"], whose two hosts are published; a file that
\* stores a list makes the cycle run with exactly that list.
C14_LoadNeverFails ==
    /\ pc # "panicked"
    /\ config_file.kind \in {"missing", "unreadable", "invalid"} =>
           /\ CycleLoaded
           /\ targets = << <<"google.com">>, <<"1.1.1.1">> >>
           /\ CyclePublished =>
                  /\ Len(results) = 2
                  /\ results[1].host = <<"google.com">>
                  /\ results[2].host = <<"1.1.1.1">>
    /\ config_file.kind = "valid" =>
           /\ CycleLoaded
           /\ targets = config_file.targets

\* The first k calls of send_status_notification are the first k events.
DispatchedInOrder(k) ==
    /\ Len(dispatch_log) = k
    /\ \A i \in 1..k :
           /\ dispatch_log[i].host = notifications[i].host
           /\ dispatch_log[i].is_up = notifications[i].is_up

\* C15: a call of send_status_notification, failed or not, leaves the
\* shared state unchanged and the loop in its dispatch; every event of the
\* cycle is handed over exactly once, in emission order, whatever failed
\* before it; once all are handed over the loop goes on to its sleep and from
\* there to the next iteration.
C15_DispatchFailureIsolated ==
    /\ [](/\ pc = "notify" =>
                 /\ DispatchedInOrder(next_event - 1)
                 /\ ENABLED (Notify \/ EndDispatch)
          /\ pc = "sleep" =>
                 /\ DispatchedInOrder(Len(notifications))
                 /\ ENABLED Sleep)
    /\ [][NotifyStep => (UNCHANGED shared /\ pc' = "notify")]_vars

\* The first of two events failed to show and the second was still handed
\* over.
C15_Witness ==
    /\ pc = "sleep"
    /\ Len(dispatch_log) >= 2
    /\ ~dispatch_log[1].shown

\* The order of the steps of one iteration.
StepOrder ==
    { <<"tray", "load">>, <<"tray", "tray_pause">>, <<"tray_pause", "tray_spawn">>,
      <<"tray_spawn", "load">>, <<"load", "probe">>, <<"probe", "publish">>,
      <<"publish", "notify">>, <<"notify", "sleep">>, <<"sleep", "tray">> }

\* C18: the loop moves only from the load to the probes, to the publication,
\* to the dispatch, to the sleep and to the next iteration; the targets are
\* read only by the load step, the probes run only in the probe step, the
\* shared state is written only by the publication, every call of
\* send_status_notification happens after it and before the sleep, the sleep
\* starts only when every event is handed over, and the next iteration
\* starts only from the sleep.
C18_StepOrdering ==
    [][/\ pc' # pc => <<pc, pc'>> \in StepOrder
       /\ targets' \notin {targets, <<>>} => (pc = "load" /\ pc' = "probe")
       /\ raw_results' \notin {raw_results, <<>>} => pc = "probe"
       /\ probe' # probe => (pc = "probe" /\ pc' = "probe")
       /\ pc' = "publish" =>
              \/ pc = "publish"
              \/ pc = "probe" /\ target_index > Len(targets) /\ probe = NoProbe
       /\ shared' # shared => (pc = "publish" /\ pc' = "notify")
       /\ notifications' \notin {notifications, <<>>} => (pc = "publish" /\ pc' = "notify")
       /\ dispatch_log' \notin {dispatch_log, <<>>} =>
              /\ pc = "notify" /\ pc' = "notify"
              /\ Len(dispatch_log') <= Len(notifications)
       /\ pc' = "sleep" => (pc = "sleep" \/ Len(dispatch_log) = Len(notifications))
       /\ (pc' = "tray" /\ pc # "tray") => pc = "sleep"]_vars

\* The second iteration reached its sleep after two calls of
\* send_status_notification.
C18_Witness ==
    /\ pc = "sleep"
    /\ update_counter = 2
    /\ Len(dispatch_log) = 2

\* The statements between lock() and the end of the block.
InCriticalSection == pc \in {"compute", "write", "unlock"}

\* C12: every value of PingerState a tray callback reads through its guard
\* is the snapshot left by the last completed critical section (or the
\* initial one): all six fields belong to the same cycle, and both reads of
\* one callback see the same snapshot.
C12_SnapshotAtomic ==
    \A k \in 1..Len(tray_seen) : tray_seen[k] = committed
\* A callback has read twice while the monitor, with a new cycle probed,
\* waits for the Mutex.
C12_Witness ==
    /\ pc = "publish"
    /\ update_counter >= 1
    /\ tray_pc = "unlock"
    /\ Len(tray_seen) = 2
    /\ tray_seen[1].update_counter = update_counter

\* C13: as long as the process has not been quit and the bound on cycles
\* is not reached, the monitor loop has a next step, or waits for a
\* callback that holds the Mutex.
C13_NoTerminalState ==
    (pc # "exited" /\ update_counter < MaxTrayCycles) =>
        (ENABLED MonitorNext \/ mutex = "tray")

\* C19: the monitor holds the Mutex exactly between lock() and the end of
\* the block, a callback exactly between its lock() and its return; outside
\* the critical section a callback can take a free Mutex at once, and the
\* monitor at lock() is held up only by a callback inside its read.
C19_LockScope ==
    ProcessAlive =>
        /\ mutex = "monitor" <=> InCriticalSection
        /\ mutex = "tray" <=> tray_pc # "idle"
        /\ (current_handle.some /\ tray_pc = "idle" /\ ~InCriticalSection) =>
               \A cb \in TrayCallbacks : ENABLED TrayLock(cb)
        /\ (pc = "publish" /\ tray_pc = "idle") => ENABLED MonitorLock
\* A callback reads while the monitor is dispatching a notification.
C19_Witness ==
    /\ pc = "notify"
    /\ next_event <= Len(notifications)
    /\ tray_pc = "second_read"
    /\ mutex = "tray"


\* The probe in hand is a call of do_http_check / of do_ping.
HttpProbe == IsHttpTarget(probe.target) /\ probe.client
PingProbe == probe.pc # "idle" /\ ~IsHttpTarget(probe.target)
RECURSIVE CountKind(_, _)
CountKind(log, kind) ==
    IF log = <<>> THEN 0
    ELSE (IF Head(log).kind = kind THEN 1 ELSE 0) + CountKind(Tail(log), kind)
FailedAttempt(e) ==
    e.kind = "PING" /\ ~(e.answer.kind = "exit" /\ e.answer.success)

\* C16: do_http_check sends one HEAD first and at most one GET after it;
\* the GET is sent exactly when the HEAD answered 405 or failed without a
\* timeout; a HEAD timeout gives (false, "HTTP timeout") with no GET; the
\* outcome of a final status code is reachable iff the code is 2xx or 3xx;
\* a GET that times out or fails gives unreachable.
C16_HttpProtocol ==
    HttpProbe =>
        LET log == probe.log
            n == Len(log)
            retried(head) ==
                \/ head.kind = "status" /\ head.code = 405
                \/ head.kind = "error"
        IN /\ n <= 2
           /\ n >= 1 => log[1].kind = "HEAD"
           /\ n = 2 => log[2].kind = "GET"
           /\ probe.pc = "head" => n = 0
           /\ probe.pc = "get" => (n = 1 /\ retried(log[1].answer))
           /\ probe.pc = "done" =>
                  /\ n >= 1
                  /\ n = 2 <=> retried(log[1].answer)
                  /\ log[1].answer.kind = "timeout" =>
                         probe.out = Some([success |-> FALSE, msg |-> "HTTP timeout"])
                  /\ log[n].answer.kind = "status" =>
                         (probe.out.val.success <=> log[n].answer.code \in 200..399)
                  /\ log[n].answer.kind # "status" => ~probe.out.val.success
\* A HEAD answered 405, and the GET that followed was redirected.
C16_Witness ==
    /\ HttpProbe
    /\ probe.pc = "done"
    /\ Len(probe.log) = 2
    /\ probe.log[1].answer = [kind |-> "status", code |-> 405]
    /\ probe.log[2].answer = [kind |-> "status", code |-> 301]
    /\ probe.out.val.success

\* C17: do_ping makes 1 to 3 attempts; nothing follows a successful attempt;
\* it returns unreachable only after 3 failed attempts; every delay follows
\* a failed attempt and is followed by another attempt, so there are at most
\* 2 delays; an error of the spawn is a failed attempt like any other.
C17_PingProtocol ==
    PingProbe =>
        LET log == probe.log
            n == Len(log)
            attempts == CountKind(log, "PING")
        IN /\ attempts <= PING_ATTEMPTS
           /\ CountKind(log, "SLEEP") <= 2
           /\ \A k \in 1..n :
                  /\ (log[k].kind = "PING" /\ k < n) =>
                         (FailedAttempt(log[k]) /\ log[k + 1].kind = "SLEEP")
                  /\ log[k].kind = "SLEEP" =>
                         /\ k > 1 /\ FailedAttempt(log[k - 1])
                         /\ k < n => log[k + 1].kind = "PING"
                         /\ k = n => (attempts < PING_ATTEMPTS /\ ENABLED NextProbe)
           /\ (n >= 1 /\ FailedAttempt(log[n]) /\ attempts < PING_ATTEMPTS) =>
                  probe.pc = "delay"
           /\ probe.pc = "done" =>
                  /\ attempts >= 1
                  /\ log[n].kind = "PING"
                  /\ probe.out.val.success <=> ~FailedAttempt(log[n])
                  /\ ~probe.out.val.success => attempts = PING_ATTEMPTS
\* Three failed attempts, one of them an error of the spawn, two delays.
C17_Witness ==
    /\ PingProbe
    /\ probe.pc = "done"
    /\ ~probe.out.val.success
    /\ CountKind(probe.log, "PING") = 3
    /\ CountKind(probe.log, "SLEEP") = 2
    /\ probe.log[3].answer.kind = "spawn_error"


\* The events of a trace are down, up, down, ... in this order.
Alternates(trace) == \A k \in 1..Len(trace) : trace[k] = (k % 2 = 0)
CountEvents(ns, h) == Cardinality({ k \in 1..Len(ns) : ns[k].host = h })

\* C20: the events dispatched for a host that every cycle's list holds
\* exactly once start with a 'down' and alternate; a cycle emits at most one
\* event for it: a 'down' exactly when its streak reaches 2, an 'up' exactly
\* when its probe succeeds after a streak of 2 or more.
C20_Alternation ==
    /\ [](tracked.some => Alternates(event_trace))
    /\ [][(tracked.some /\ PublishStep) =>
             LET h == tracked.val
             IN /\ CountEvents(notifications', h) <= 1
                /\ Emitted(notifications', h, FALSE) <=>
                       StreakOf(fail_streaks', h) = FAIL_STREAK_THRESHOLD
                /\ Emitted(notifications', h, TRUE) <=>
                       /\ StreakOf(fail_streaks, h) >= FAIL_STREAK_THRESHOLD
                       /\ \E i \in 1..Len(raw_results) :
                              raw_results[i].host = h /\ raw_results[i].success]_vars
\* A 'down', an 'up' and a second 'down' have been dispatched for the host.
C20_Witness ==
    /\ tracked.some
    /\ pc = "sleep"
    /\ event_trace = <<FALSE, TRUE, FALSE>>
    /\ StreakOf(fail_streaks, tracked.val) = FAIL_STREAK_THRESHOLD


\* The entries of a target list that are not blank, trimmed, in list order.
RECURSIVE NonBlankInOrder(_)
NonBlankInOrder(tgts) ==
    IF tgts = <<>> THEN <<>>
    ELSE (IF Trim(Head(tgts)) = <<>> THEN <<>> ELSE << Trim(Head(tgts)) >>)
             \o NonBlankInOrder(Tail(tgts))

\* C21: once a cycle has completed the published list is not empty; the
\* list a cycle publishes has one entry per non-blank configured entry, in
\* the order of the configuration, or, when the configuration is empty or
\* all blank, exactly one placeholder entry that is reachable.
C21_ResultsNeverEmpty ==
    /\ update_counter >= 1 => results # <<>>
    /\ CyclePublished =>
           LET hosts == NonBlankInOrder(targets)
           IN IF hosts # <<>>
              THEN /\ Len(results) = Len(hosts)
                   /\ \A i \in 1..Len(hosts) : results[i].host = hosts[i]
              ELSE /\ Len(results) = 1
                   /\ results[1].up
                   /\ results[1].host =
                          IF targets = <<>> THEN NoTargetsLabel ELSE NoValidLabel
\* After a cycle with probed hosts, a cycle whose list has entries, all of
\* them blank, has published its placeholder.
C21_Witness ==
    /\ CyclePublished
    /\ prev_hosts # {}
    /\ targets # <<>>
    /\ NonBlankInOrder(targets) = <<>>
    /\ Len(results) = 1
    /\ results[1].host = NoValidLabel

====
